---- MODULE Spec2Model ----
(***************************************************************************)
(* Open Meteo MCP server (src/src/index.ts): three tools, each validating  *)
(* its arguments with a zod schema, issuing one HTTP GET to Open-Meteo and *)
(* formatting the JSON body as text.                                       *)
(*                                                                         *)
(* JavaScript values are tagged records (field t is the typeof / kind):    *)
(*   undefined, null, number, string, array, object.                       *)
(* A number is floor + (half ? 0.5 : 0): the model draws numbers from the  *)
(* multiples of 0.5, enough to tell integers from non-integers and a       *)
(* bound from its two neighbours.                                          *)
(***************************************************************************)
EXTENDS Integers, Sequences, FiniteSets

VARIABLES
  process,   \* "starting" | "running" | "exited": the node process (main)
  calls,     \* per request slot: the handler invocation, its fetch and its reply
  failed     \* history: some tool call has already ended in an error

vars == <<process, calls, failed>>

\* Number of tool calls the host may have outstanding at once.
MaxCalls == 2
\* Longest daily series the upstream bodies of the model carry.
MaxDays == 2

Slots == 1..MaxCalls

----------------------------------------------------------------------------
(* JavaScript values *)

Undefined == [t |-> "undefined"]
Null == [t |-> "null"]
Num(i) == [t |-> "number", floor |-> i, half |-> FALSE]
NumHalf(i) == [t |-> "number", floor |-> i, half |-> TRUE]
Str(s) == [t |-> "string", s |-> s]
Arr(items) == [t |-> "array", items |-> items]
Obj(props) == [t |-> "object", props |-> props]

\* obj.key of an object: undefined when the key is absent.
Get(obj, key) ==
  IF obj.t = "object" /\ key \in DOMAIN obj.props
    THEN obj.props[key] ELSE Undefined

\* obj without key.
Without(obj, key) ==
  Obj([k \in (DOMAIN obj.props) \ {key} |-> obj.props[k]])

\* obj with key set to v.
With(obj, key, v) ==
  Obj([k \in (DOMAIN obj.props) \cup {key} |->
         IF k = key THEN v ELSE obj.props[k]])

\* arr[i] with a 0-based index: undefined past the end.
At(arr, i) ==
  IF arr.t = "array" /\ i + 1 \in DOMAIN arr.items
    THEN arr.items[i + 1] ELSE Undefined

\* The bound of `i < v.length`: a value without a length compares false.
Length(v) ==
  CASE v.t = "array" -> Len(v.items)
    [] v.t = "string" -> Len(v.s)
    [] OTHER -> 0

\* Reading a property of v throws a TypeError.
Nullish(v) == v.t \in {"undefined", "null"}

Digit(d) ==
  CASE d = 0 -> "0" [] d = 1 -> "1" [] d = 2 -> "2" [] d = 3 -> "3"
    [] d = 4 -> "4" [] d = 5 -> "5" [] d = 6 -> "6" [] d = 7 -> "7"
    [] d = 8 -> "8" [] d = 9 -> "9"

RECURSIVE NatToString(_)
NatToString(n) ==
  IF n < 10 THEN Digit(n) ELSE NatToString(n \div 10) \o Digit(n % 10)

\* Number.prototype.toString of floor + (half ? 0.5 : 0).
NumberToString(v) ==
  IF ~v.half
    THEN IF v.floor < 0 THEN "-" \o NatToString(-v.floor)
                         ELSE NatToString(v.floor)
    ELSE IF v.floor < 0 THEN "-" \o NatToString(-(v.floor + 1)) \o ".5"
                         ELSE NatToString(v.floor) \o ".5"

RECURSIVE JoinItems(_, _)
\* `${v}` of a template literal.
ToString(v) ==
  CASE v.t = "undefined" -> "undefined"
    [] v.t = "null" -> "null"
    [] v.t = "number" -> NumberToString(v)
    [] v.t = "string" -> v.s
    [] v.t = "array" -> JoinItems(v.items, 1)
    [] v.t = "object" -> "[object Object]"

JoinItems(items, i) ==
  IF i > Len(items) THEN ""
  ELSE (IF Nullish(items[i]) THEN "" ELSE ToString(items[i]))
       \o (IF i < Len(items) THEN "," ELSE "")
       \o JoinItems(items, i + 1)

\* if (v): JavaScript truthiness.
Truthy(v) ==
  CASE v.t \in {"undefined", "null"} -> FALSE
    [] v.t = "number" -> ~(v.floor = 0 /\ ~v.half)
    [] v.t = "string" -> v.s # ""
    [] OTHER -> TRUE

----------------------------------------------------------------------------
(* zod schemas (index.ts lines 11-27) *)

Issue(path, message) == [path |-> path, message |-> message]

NumGeq(v, n) == v.floor >= n
\* NumLeq comparing the truncated value, as Math.floor(v) <= n would.
NumLeqFloor(v, n) == v.floor <= n
NumLeq(v, n) == v.floor < n \/ (v.floor = n /\ ~v.half)

\* z.number().min(lo).max(hi) applied to the field `path`.
ZodNumber(v, lo, hi, path) ==
  IF v.t = "undefined" THEN <<Issue(path, "Required")>>
  ELSE IF v.t # "number"
    THEN <<Issue(path, "Expected number, received " \o v.t)>>
  ELSE IF ~NumGeq(v, lo)
    THEN <<Issue(path, "Number must be greater than or equal to "
                        \o NumberToString(Num(lo)))>>
  ELSE IF ~NumLeq(v, hi)
    THEN <<Issue(path, "Number must be less than or equal to "
                        \o NumberToString(Num(hi)))>>
  ELSE <<>>

\* z.string() applied to the field `path`.
ZodString(v, path) ==
  IF v.t = "undefined" THEN <<Issue(path, "Required")>>
  ELSE IF v.t # "string"
    THEN <<Issue(path, "Expected string, received " \o v.t)>>
  ELSE <<>>

\* z.object(...) applied to something that is not an object.
ZodObject(args) ==
  IF args.t = "object" THEN <<>>
  ELSE IF args.t = "undefined" THEN <<Issue("", "Required")>>
  ELSE <<Issue("", "Expected object, received " \o args.t)>>

ParseOk(data) == [success |-> TRUE, data |-> data]
ParseFail(issues) == [success |-> FALSE, issues |-> issues]

\* forecast_days: z.number().min(1).max(16).optional().default(7)
ForecastDaysIssues(v) ==
  IF v.t = "undefined" THEN <<>> ELSE ZodNumber(v, 1, 16, "forecast_days")

ForecastDaysValue(v) == IF v.t = "undefined" THEN Num(7) ELSE v

\* GetForecastArgsSchema.parse(args)
GetForecastArgsSchema(args) ==
  IF ZodObject(args) # <<>> THEN ParseFail(ZodObject(args))
  ELSE
    LET issues == ZodNumber(Get(args, "latitude"), -90, 90, "latitude")
               \o ZodNumber(Get(args, "longitude"), -180, 180, "longitude")
               \o ForecastDaysIssues(Get(args, "forecast_days"))
    IN IF issues # <<>> THEN ParseFail(issues)
       ELSE ParseOk([latitude |-> Get(args, "latitude"),
                     longitude |-> Get(args, "longitude"),
                     forecast_days |->
                       ForecastDaysValue(Get(args, "forecast_days"))])

\* GetCurrentWeatherArgsSchema.parse(args)
GetCurrentWeatherArgsSchema(args) ==
  IF ZodObject(args) # <<>> THEN ParseFail(ZodObject(args))
  ELSE
    LET issues == ZodNumber(Get(args, "latitude"), -90, 90, "latitude")
               \o ZodNumber(Get(args, "longitude"), -180, 180, "longitude")
    IN IF issues # <<>> THEN ParseFail(issues)
       ELSE ParseOk([latitude |-> Get(args, "latitude"),
                     longitude |-> Get(args, "longitude")])

\* GeocodeArgsSchema.parse(args)
GeocodeArgsSchema(args) ==
  IF ZodObject(args) # <<>> THEN ParseFail(ZodObject(args))
  ELSE
    LET issues == ZodString(Get(args, "location"), "location")
    IN IF issues # <<>> THEN ParseFail(issues)
       ELSE ParseOk([location |-> Get(args, "location")])

RECURSIVE IssuesText(_, _)
\* error.errors.map((e) => `${e.path.join(".")}: ${e.message}`).join(", ")
IssuesText(issues, i) ==
  IF i > Len(issues) THEN ""
  ELSE issues[i].path \o ": " \o issues[i].message
       \o (IF i < Len(issues) THEN ", " ELSE "")
       \o IssuesText(issues, i + 1)

----------------------------------------------------------------------------
(* Completion of a function: a returned value or a thrown error *)

Return(v) == [throws |-> FALSE, value |-> v]
Throw(name, message) ==
  [throws |-> TRUE, error |-> [name |-> name, message |-> message]]
ThrowZod(issues) ==
  [throws |-> TRUE, error |-> [name |-> "ZodError", issues |-> issues]]

----------------------------------------------------------------------------
(* Formatters (index.ts lines 29-58) *)

ForecastHeader(data) ==
  "Weather Forecast for coordinates (" \o ToString(Get(data, "latitude"))
  \o ", " \o ToString(Get(data, "longitude")) \o ")\n\n"

\* One pass of the loop body for index i.
ForecastDay(daily, i) ==
  "Date: " \o ToString(At(Get(daily, "time"), i)) \o "\n"
  \o "  Temperature: "
  \o ToString(At(Get(daily, "temperature_2m_max"), i)) \o "°C max, "
  \o ToString(At(Get(daily, "temperature_2m_min"), i)) \o "°C min\n"
  \o "  Precipitation: "
  \o ToString(At(Get(daily, "precipitation_sum"), i)) \o " mm\n"
  \o "  Wind Speed: "
  \o ToString(At(Get(daily, "wind_speed_10m_max"), i)) \o " km/h max\n"
  \o "  Weather Code: "
  \o ToString(At(Get(daily, "weather_code"), i)) \o "\n\n"

\* The arrays the loop body indexes besides daily.time.
DailySeries ==
  {"temperature_2m_max", "temperature_2m_min", "precipitation_sum",
   "wind_speed_10m_max", "weather_code"}

RECURSIVE ForecastLoopShort(_, _, _)
\* ForecastLoop stopping one day early: i < daily.time.length - 1.
ForecastLoopShort(daily, i, result) ==
  IF ~(i < Length(Get(daily, "time")) - 1) THEN Return(result)
  ELSE IF \E k \in DailySeries : Nullish(Get(daily, k))
    THEN Throw("TypeError", "Cannot read properties of undefined")
  ELSE ForecastLoopShort(daily, i + 1, result \o ForecastDay(daily, i))

RECURSIVE ForecastLoop(_, _, _)
\* for (let i = 0; i < daily.time.length; i++) { result += ... }
ForecastLoop(daily, i, result) ==
  IF ~(i < Length(Get(daily, "time"))) THEN Return(result)
  ELSE IF \E k \in DailySeries : Nullish(Get(daily, k))
    THEN Throw("TypeError", "Cannot read properties of undefined")
  ELSE ForecastLoop(daily, i + 1, result \o ForecastDay(daily, i))

formatForecast(data) ==
  IF Nullish(data)
    THEN Throw("TypeError", "Cannot destructure property 'latitude'")
  ELSE IF Nullish(Get(data, "daily"))
    THEN Throw("TypeError", "Cannot read properties of undefined")
  ELSE IF Nullish(Get(Get(data, "daily"), "time"))
    THEN Throw("TypeError", "Cannot read properties of undefined")
  ELSE ForecastLoop(Get(data, "daily"), 0, ForecastHeader(data))

formatCurrentWeather(data) ==
  IF Nullish(data)
    THEN Throw("TypeError", "Cannot destructure property 'latitude'")
  ELSE IF Nullish(Get(data, "current"))
    THEN Throw("TypeError", "Cannot read properties of undefined")
  ELSE
    LET current == Get(data, "current")
    IN Return(
      "Current Weather for coordinates (" \o ToString(Get(data, "latitude"))
      \o ", " \o ToString(Get(data, "longitude")) \o ")\n\n"
      \o "Time: " \o ToString(Get(current, "time")) \o "\n"
      \o "Temperature: " \o ToString(Get(current, "temperature_2m")) \o "°C\n"
      \o "Relative Humidity: "
      \o ToString(Get(current, "relative_humidity_2m")) \o "%\n"
      \o "Precipitation: " \o ToString(Get(current, "precipitation")) \o " mm\n"
      \o "Wind Speed: " \o ToString(Get(current, "wind_speed_10m")) \o " km/h\n"
      \o "Wind Direction: "
      \o ToString(Get(current, "wind_direction_10m")) \o "°\n"
      \o "Weather Code: " \o ToString(Get(current, "weather_code")) \o "\n")

----------------------------------------------------------------------------
(* API functions (index.ts lines 60-122), cut at their awaits:             *)
(*   _url   up to `await fetch(url.toString())`                            *)
(*   _ok    from the arrival of the response to `await response.json()`    *)
(*   _data  from the parsed body to the return                             *)

Param(k, v) == [name |-> k, value |-> v]

getForecast_url(latitude, longitude, forecast_days) ==
  [base |-> "https://api.open-meteo.com/v1/forecast",
   searchParams |-> <<
     Param("latitude", NumberToString(latitude)),
     Param("longitude", NumberToString(longitude)),
     Param("daily", "temperature_2m_max,temperature_2m_min,precipitation_sum,wind_speed_10m_max,weather_code"),
     Param("forecast_days", NumberToString(forecast_days)),
     Param("timezone", "auto")>>]

getCurrentWeather_url(latitude, longitude) ==
  [base |-> "https://api.open-meteo.com/v1/forecast",
   searchParams |-> <<
     Param("latitude", NumberToString(latitude)),
     Param("longitude", NumberToString(longitude)),
     Param("current", "temperature_2m,relative_humidity_2m,precipitation,wind_speed_10m,wind_direction_10m,weather_code")>>]

geocodeLocation_url(location) ==
  [base |-> "https://geocoding-api.open-meteo.com/v1/search",
   searchParams |-> <<
     Param("name", location),
     Param("count", "5"),
     Param("language", "en"),
     Param("format", "json")>>]

\* OpenMeteoError reporting a field the response does not have.
OpenMeteoErrorNoText(statusText) ==
  Throw("Error", "Open Meteo API error: " \o ToString(Undefined))

\* if (!response.ok) throw new Error(`Open Meteo API error: ${statusText}`)
OpenMeteoError(statusText) ==
  Throw("Error", "Open Meteo API error: " \o statusText)

\* if (!response.ok) throw new Error(`Geocoding API error: ${statusText}`)
GeocodingError(statusText) ==
  Throw("Error", "Geocoding API error: " \o statusText)

getForecast_ok(response) ==
  IF ~response.ok THEN OpenMeteoError(response.statusText) ELSE Return("json")

getCurrentWeather_ok(response) ==
  IF ~response.ok THEN OpenMeteoError(response.statusText) ELSE Return("json")

geocodeLocation_ok(response) ==
  IF ~response.ok THEN GeocodingError(response.statusText) ELSE Return("json")

\* await response.json() rejects on a body that is not JSON.
JsonError == Throw("SyntaxError", "Unexpected token in JSON")

getForecast_data(body) ==
  IF ~body.json THEN JsonError ELSE formatForecast(body.data)

getCurrentWeather_data(body) ==
  IF ~body.json THEN JsonError ELSE formatCurrentWeather(body.data)

\* The text appended for one place of data.results.
GeocodePlace(place) ==
  ToString(Get(place, "name"))
  \o (IF Truthy(Get(place, "admin1"))
        THEN ", " \o ToString(Get(place, "admin1")) ELSE "")
  \o (IF Truthy(Get(place, "country"))
        THEN ", " \o ToString(Get(place, "country")) ELSE "")
  \o "\n  Coordinates: " \o ToString(Get(place, "latitude")) \o ", "
  \o ToString(Get(place, "longitude")) \o "\n"
  \o (IF Truthy(Get(place, "elevation"))
        THEN "  Elevation: " \o ToString(Get(place, "elevation")) \o "m\n"
        ELSE "")
  \o "\n"

RECURSIVE GeocodeLoop(_, _, _)
\* for (const place of data.results) { result += ... }
GeocodeLoop(results, i, result) ==
  IF ~(i < Length(results)) THEN Return(result)
  ELSE IF Nullish(At(results, i))
    THEN Throw("TypeError", "Cannot read properties of undefined")
  ELSE GeocodeLoop(results, i + 1, result \o GeocodePlace(At(results, i)))

\* if (!data.results || data.results.length === 0)
NoResults(data) ==
  ~Truthy(Get(data, "results")) \/ Length(Get(data, "results")) = 0

\* NoResultsText under the header of the results.
NoResultsTextHeader(location) ==
  "Geocoding results for \"" \o location \o "\":\n\n"
  \o "No results found for location: " \o location

\* return `No results found for location: ${location}`
NoResultsText(location) == "No results found for location: " \o location

\* geocodeLocation_data without the `!data.results ||` guard: reading the
\* length of a missing list throws.
geocodeLocation_data_unguarded(location, body) ==
  IF ~body.json THEN JsonError
  ELSE IF Nullish(body.data)
    THEN Throw("TypeError", "Cannot read properties of null")
  ELSE IF Nullish(Get(body.data, "results"))
    THEN Throw("TypeError", "Cannot read properties of undefined")
  ELSE IF Length(Get(body.data, "results")) = 0
    THEN Return(NoResultsText(location))
  ELSE GeocodeLoop(Get(body.data, "results"), 0,
                   "Geocoding results for \"" \o location \o "\":\n\n")

geocodeLocation_data(location, body) ==
  IF ~body.json THEN JsonError
  ELSE IF Nullish(body.data)
    THEN Throw("TypeError", "Cannot read properties of null")
  ELSE IF NoResults(body.data) THEN Return(NoResultsText(location))
  ELSE GeocodeLoop(Get(body.data, "results"), 0,
                   "Geocoding results for \"" \o location \o "\":\n\n")

----------------------------------------------------------------------------
(* CallToolRequestSchema handler (index.ts lines 210-255) *)

\* What the handler keeps across its awaits: the case of the switch it is in
\* and the validated location (the other parsed fields are used up by _url).
Frame(tool, location) == [tool |-> tool, location |-> location]
NoFrame == Frame("", "")

Started(tool, location, url) ==
  Return([frame |-> Frame(tool, location), url |-> url])

\* The try block up to the first await: the switch on name, the schema's
\* parse and the URL handed to fetch.
CallToolStart(params) ==
  CASE params.name = "get_forecast" ->
         LET parsed == GetForecastArgsSchema(params.arguments)
         IN IF ~parsed.success THEN ThrowZod(parsed.issues)
            ELSE Started("get_forecast", "",
                         getForecast_url(parsed.data.latitude,
                                         parsed.data.longitude,
                                         parsed.data.forecast_days))
    [] params.name = "get_current_weather" ->
         LET parsed == GetCurrentWeatherArgsSchema(params.arguments)
         IN IF ~parsed.success THEN ThrowZod(parsed.issues)
            ELSE Started("get_current_weather", "",
                         getCurrentWeather_url(parsed.data.latitude,
                                               parsed.data.longitude))
    [] params.name = "geocode" ->
         LET parsed == GeocodeArgsSchema(params.arguments)
         IN IF ~parsed.success THEN ThrowZod(parsed.issues)
            ELSE Started("geocode", parsed.data.location.s,
                         geocodeLocation_url(parsed.data.location.s))
    [] OTHER -> Throw("Error", "Unknown tool: " \o params.name)

\* The awaited API function, resumed with the response's status line.
CallToolOk(frame, response) ==
  CASE frame.tool = "get_forecast" -> getForecast_ok(response)
    [] frame.tool = "get_current_weather" -> getCurrentWeather_ok(response)
    [] frame.tool = "geocode" -> geocodeLocation_ok(response)

\* The awaited API function, resumed with the body.
CallToolData(frame, body) ==
  CASE frame.tool = "get_forecast" -> getForecast_data(body)
    [] frame.tool = "get_current_weather" -> getCurrentWeather_data(body)
    [] frame.tool = "geocode" -> geocodeLocation_data(frame.location, body)

\* catch (error): a ZodError becomes Error("Invalid arguments: ..."), any
\* other error is thrown on as it is.
CallToolCatch(error) ==
  IF error.name = "ZodError"
    THEN [name |-> "Error",
          message |-> "Invalid arguments: " \o IssuesText(error.issues, 1)]
    ELSE error

NoReply == [kind |-> "none"]
\* return { content: [{ type: "text", text }] }
ResultReply(text) ==
  [kind |-> "result", content |-> <<[type |-> "text", text |-> text]>>]
\* The error the handler throws, answered to the host as a failed call.
ErrorReply(error) == [kind |-> "error", error |-> error]

\* The reply a completion of the try block leads to.
Settle(completion) ==
  IF completion.throws THEN ErrorReply(CallToolCatch(completion.error))
  ELSE ResultReply(completion.value)

----------------------------------------------------------------------------
(* Inputs: the requests of the host *)

CallParams(name, arguments) == [name |-> name, arguments |-> arguments]

\* An arguments object holding only the keys that are given.
Coordinates(latitude, longitude) ==
  LET keys == {k \in {"latitude", "longitude"} :
                 (IF k = "latitude" THEN latitude ELSE longitude).t
                   # "undefined"}
  IN Obj([k \in keys \cup {"units"} |->
            IF k = "latitude" THEN latitude
            ELSE IF k = "longitude" THEN longitude ELSE Str("metric")])

ForecastArgs(latitude, longitude, forecast_days) ==
  IF forecast_days.t = "undefined" THEN Coordinates(latitude, longitude)
  ELSE With(Coordinates(latitude, longitude), "forecast_days", forecast_days)

\* -91, -90.5, -90, 52.5, 90, 90.5, 91
Latitudes ==
  {Num(-91), NumHalf(-91), Num(-90), NumHalf(52), Num(90), NumHalf(90), Num(91)}
\* -181, -180.5, -180, 13.5, 180, 180.5, 181
Longitudes ==
  {Num(-181), NumHalf(-181), Num(-180), NumHalf(13), Num(180), NumHalf(180),
   Num(181)}
\* omitted, 0, 0.5, 1, 1.5, 7, 16, 16.5, 17, null, "7"
ForecastDays ==
  {Undefined, Num(0), NumHalf(0), Num(1), NumHalf(1), Num(7), Num(16),
   NumHalf(16), Num(17), Null, Str("7")}

\* Coordinate pairs: one field moved across its bounds at a time, both out
\* of range, one missing, one of the wrong type.
CoordinatePairs ==
  {<<lat, NumHalf(13)>> : lat \in Latitudes}
  \cup {<<NumHalf(52), lon>> : lon \in Longitudes}
  \cup {<<Num(91), Num(-181)>>, <<Undefined, NumHalf(13)>>,
        <<NumHalf(52), Str("13.5")>>, <<Null, Undefined>>}

ForecastRequests ==
  {CallParams("get_forecast", ForecastArgs(p[1], p[2], Undefined)) :
     p \in CoordinatePairs}
  \cup {CallParams("get_forecast", ForecastArgs(NumHalf(52), NumHalf(13), d)) :
          d \in ForecastDays}
  \cup {CallParams("get_forecast", ForecastArgs(Num(91), Num(181), Num(17))),
        CallParams("get_forecast", Undefined)}

CurrentWeatherRequests ==
  {CallParams("get_current_weather", Coordinates(p[1], p[2])) :
     p \in CoordinatePairs}
  \cup {CallParams("get_current_weather", Null)}

\* A location given, of the wrong type, or missing.
GeocodeArgs(location) ==
  IF location.t = "undefined" THEN Obj([count |-> Num(5)])
  ELSE Obj([location |-> location])

Locations == {Str(""), Str("Nowhere123"), Str("Paris"), Num(5), Undefined}

GeocodeRequests ==
  {CallParams("geocode", GeocodeArgs(l)) : l \in Locations}

UnknownRequests ==
  {CallParams("get_alerts", Coordinates(NumHalf(52), NumHalf(13))),
   CallParams("", Undefined)}

Requests ==
  ForecastRequests \cup CurrentWeatherRequests \cup GeocodeRequests
  \cup UnknownRequests

----------------------------------------------------------------------------
(* Inputs: the responses of the upstream *)

Status(ok, statusText) == [ok |-> ok, statusText |-> statusText]

Statuses ==
  {Status(TRUE, "OK"), Status(FALSE, "Internal Server Error"),
   Status(FALSE, "Too Many Requests")}

Json(data) == [json |-> TRUE, data |-> data]
NotJson == [json |-> FALSE, data |-> Undefined]

\* The daily object of a forecast of n days, every series n long.
DailyData(n) ==
  Obj([time |-> Arr([i \in 1..n |-> Str("2024-01-" \o NatToString(9 + i))]),
       temperature_2m_max |-> Arr([i \in 1..n |-> NumHalf(3 + i)]),
       temperature_2m_min |-> Arr([i \in 1..n |-> Num(i - 3)]),
       precipitation_sum |-> Arr([i \in 1..n |-> Num(i - 1)]),
       wind_speed_10m_max |-> Arr([i \in 1..n |-> NumHalf(20 + i)]),
       weather_code |-> Arr([i \in 1..n |-> Num(60 + i)])])

ForecastData(n) ==
  Obj([latitude |-> NumHalf(52), longitude |-> NumHalf(13),
       timezone |-> Str("Europe/Berlin"), daily |-> DailyData(n)])

\* data with one key of its daily object removed.
WithoutDaily(data, key) ==
  With(data, "daily", Without(Get(data, "daily"), key))

\* data with one daily series one entry shorter than daily.time.
ShortSeries(data, key) ==
  LET daily == Get(data, "daily")
      items == Get(daily, key).items
  IN With(data, "daily",
          With(daily, key, Arr(SubSeq(items, 1, Len(items) - 1))))

ForecastDatas ==
  UNION {
    {ForecastData(n)}
    \cup {Without(ForecastData(n), k) :
            k \in {"latitude", "longitude", "daily"}}
    \cup {WithoutDaily(ForecastData(n), k) : k \in DailySeries \cup {"time"}}
    \cup (IF n = 0 THEN {}
          ELSE {ShortSeries(ForecastData(n), k) : k \in DailySeries})
    : n \in 0..MaxDays}

ForecastBodies == {Json(d) : d \in ForecastDatas} \cup {Json(Null), NotJson}

CurrentFields ==
  {"time", "temperature_2m", "relative_humidity_2m", "precipitation",
   "wind_speed_10m", "wind_direction_10m", "weather_code"}

CurrentData ==
  Obj([latitude |-> NumHalf(52), longitude |-> NumHalf(13),
       current |-> Obj([time |-> Str("2024-01-10T12:00"),
                        temperature_2m |-> NumHalf(-3),
                        relative_humidity_2m |-> Num(81),
                        precipitation |-> Num(0),
                        wind_speed_10m |-> NumHalf(12),
                        wind_direction_10m |-> Num(270),
                        weather_code |-> Num(3)])])

CurrentDatas ==
  {CurrentData}
  \cup {Without(CurrentData, k) : k \in {"latitude", "longitude", "current"}}
  \cup {With(CurrentData, "current", Without(Get(CurrentData, "current"), k)) :
          k \in CurrentFields}

CurrentBodies == {Json(d) : d \in CurrentDatas} \cup {Json(Null), NotJson}

Paris ==
  Obj([name |-> Str("Paris"), admin1 |-> Str("Ile-de-France"),
       country |-> Str("France"), latitude |-> NumHalf(48),
       longitude |-> NumHalf(2), elevation |-> Num(42)])

\* A place at sea level with no admin1 and no country.
NullIsland ==
  Obj([name |-> Str("Null Island"), latitude |-> Num(0),
       longitude |-> Num(0), elevation |-> Num(0)])

GeocodeData(places) ==
  Obj([results |-> Arr(places), generationtime_ms |-> NumHalf(0)])

\* The geocoding API leaves results out when nothing matches.
GeocodeDatas ==
  {GeocodeData(<<>>), GeocodeData(<<Paris>>), GeocodeData(<<NullIsland, Paris>>),
   Without(GeocodeData(<<>>), "results")}

GeocodeBodies == {Json(d) : d \in GeocodeDatas} \cup {Json(Null), NotJson}

\* The bodies the upstream may answer a request with: the endpoint and the
\* query decide the shape.
UpstreamBodies(url) ==
  IF url.base = "https://geocoding-api.open-meteo.com/v1/search"
    THEN GeocodeBodies
  ELSE IF \E i \in DOMAIN url.searchParams : url.searchParams[i].name = "daily"
    THEN ForecastBodies
  ELSE CurrentBodies

----------------------------------------------------------------------------
(* State *)

NoRequest == CallParams("", Undefined)
NoResponse == [stage |-> "none", ok |-> FALSE, statusText |-> "", body |-> NotJson]
\* fetch rejected: no response at all.
Rejected == [stage |-> "rejected", ok |-> FALSE, statusText |-> "", body |-> NotJson]
\* The status line has arrived, the body has not been read.
Headers(status) ==
  [stage |-> "status", ok |-> status.ok, statusText |-> status.statusText,
   body |-> NotJson]
\* The body has been read.
Complete(response, body) == [response EXCEPT !.stage = "body", !.body = body]

\* A slot no call occupies.
Idle ==
  [pc |-> "idle", request |-> NoRequest, frame |-> NoFrame, fetches |-> <<>>,
   response |-> NoResponse, resumes |-> 0, reply |-> NoReply]

\* Local with the locals hoisted to module scope: every call reads what the
\* call that wrote last left there.
LocalShared(c) ==
  LET busy == {d \in Slots : calls[d].pc \in {"fetch", "json"}}
  IN calls[CHOOSE d \in busy : \A e \in busy : e <= d].frame

\* The locals of the handler invocation in slot c: const name, parsed, and
\* the parameters of the API function it awaits, are scoped to the call.
Local(c) == calls[c].frame

\* await fetch(...) rejects when the network fails.
FetchFailed == Throw("TypeError", "fetch failed")

Init ==
  /\ process = "starting"
  /\ calls = [c \in Slots |-> Idle]
  /\ failed = FALSE

\* main(): connect the transport; a failure to connect exits the process.
Main(connected) ==
  /\ process = "starting"
  /\ process' = IF connected THEN "running" ELSE "exited"
  /\ UNCHANGED <<calls, failed>>

\* Finish with a thrown error taking the process down with it.
FinishOrExit(c, call, completion) ==
  /\ calls' = [calls EXCEPT ![c] =
                 [call EXCEPT !.pc = "done", !.reply = Settle(completion)]]
  /\ failed' = (failed \/ completion.throws)
  /\ process' = IF completion.throws THEN "exited" ELSE process

\* A call ends: its reply goes to the host.
Finish(c, call, completion) ==
  /\ calls' = [calls EXCEPT ![c] =
                 [call EXCEPT !.pc = "done", !.reply = Settle(completion)]]
  /\ failed' = (failed \/ completion.throws)
  /\ UNCHANGED process

\* The handler runs from the arrival of the request to its first await, or
\* to the throw that ends it.
CallTool(c, params) ==
  /\ process = "running"
  /\ calls[c].pc = "idle"
  /\ LET start == CallToolStart(params)
         call == [Idle EXCEPT !.request = params]
     IN IF start.throws THEN Finish(c, call, start)
        ELSE /\ calls' = [calls EXCEPT ![c] =
                            [call EXCEPT !.pc = "fetch",
                                         !.frame = start.value.frame,
                                         !.fetches = <<start.value.url>>]]
             /\ UNCHANGED <<process, failed>>

\* await fetch(...) resolves with the response's status: the call throws on a
\* status that is not ok and goes on to await response.json() otherwise.
FetchResolve(c, status) ==
  /\ calls[c].pc = "fetch"
  /\ LET call == [calls[c] EXCEPT !.response = Headers(status),
                                  !.resumes = @ + 1]
         ok == CallToolOk(Local(c), status)
     IN IF ok.throws THEN Finish(c, call, ok)
        ELSE /\ calls' = [calls EXCEPT ![c] = [call EXCEPT !.pc = "json"]]
             /\ UNCHANGED <<process, failed>>

\* await fetch(...) rejects.
FetchReject(c) ==
  /\ calls[c].pc = "fetch"
  /\ Finish(c, [calls[c] EXCEPT !.response = Rejected, !.resumes = @ + 1],
            FetchFailed)

\* await response.json() settles: the call formats the body and returns, or
\* throws.
JsonResolve(c, body) ==
  /\ calls[c].pc = "json"
  /\ Finish(c, [calls[c] EXCEPT !.response = Complete(@, body),
                                !.resumes = @ + 1],
            CallToolData(Local(c), body))

\* The host takes the reply; the slot is free for its next call.
HostReceive(c) ==
  /\ calls[c].pc = "done"
  /\ calls' = [calls EXCEPT ![c] = Idle]
  /\ UNCHANGED <<process, failed>>

AllIdle == \A c \in Slots : calls[c].pc = "idle"

Start == \E connected \in BOOLEAN : Main(connected)

\* A host that waits for each reply before its next call.
Call == \E c \in Slots, params \in Requests : AllIdle /\ CallTool(c, params)

Fetched == \E c \in Slots, status \in Statuses : FetchResolve(c, status)

FetchError == \E c \in Slots : FetchReject(c)

Parsed ==
  \E c \in Slots :
    /\ calls[c].pc = "json"
    /\ \E body \in UpstreamBodies(calls[c].fetches[1]) : JsonResolve(c, body)

Received == \E c \in Slots : HostReceive(c)

Next == Start \/ Call \/ Fetched \/ FetchError \/ Parsed \/ Received

Spec == Init /\ [][Next]_vars

----------------------------------------------------------------------------
(* A host that pipelines its calls: a few requests and responses, any      *)
(* interleaving of the calls' steps.                                       *)

PipelinedRequests ==
  {CallParams("get_forecast", ForecastArgs(NumHalf(52), NumHalf(13), Undefined)),
   CallParams("get_forecast", ForecastArgs(Num(91), NumHalf(13), Undefined)),
   CallParams("geocode", GeocodeArgs(Str("Paris"))),
   CallParams("geocode", GeocodeArgs(Str("Nowhere123")))}

PipelinedStatuses == {Status(TRUE, "OK"), Status(FALSE, "Internal Server Error")}

PipelinedBodies(url) ==
  IF url.base = "https://geocoding-api.open-meteo.com/v1/search"
    THEN {Json(GeocodeData(<<>>)), Json(GeocodeData(<<Paris>>))}
    ELSE {Json(ForecastData(1)), Json(Without(ForecastData(1), "daily"))}

PipelinedCall ==
  \E c \in Slots, params \in PipelinedRequests : CallTool(c, params)

PipelinedFetched ==
  \E c \in Slots, status \in PipelinedStatuses : FetchResolve(c, status)

PipelinedParsed ==
  \E c \in Slots :
    /\ calls[c].pc = "json"
    /\ \E body \in PipelinedBodies(calls[c].fetches[1]) : JsonResolve(c, body)

NextPipelined ==
  Start \/ PipelinedCall \/ PipelinedFetched \/ FetchError \/ PipelinedParsed
  \/ Received

SpecPipelined == Init /\ [][NextPipelined]_vars

----------------------------------------------------------------------------
(* Properties *)

StartsWith(str, prefix) ==
  Len(str) >= Len(prefix) /\ SubSeq(str, 1, Len(prefix)) = prefix

EndsWith(str, suffix) ==
  Len(str) >= Len(suffix)
  /\ SubSeq(str, Len(str) - Len(suffix) + 1, Len(str)) = suffix

\* Twice the value of a number: an integer.
Twice(v) == 2 * v.floor + (IF v.half THEN 1 ELSE 0)

\* v is a number and lo <= v <= hi.
Within(v, lo, hi) ==
  v.t = "number" /\ 2 * lo <= Twice(v) /\ Twice(v) <= 2 * hi

\* The value of the query parameter `name` of a URL.
QueryParam(url, name) ==
  LET i == CHOOSE j \in DOMAIN url.searchParams :
             url.searchParams[j].name = name
  IN url.searchParams[i].value

\* The arguments of a get_forecast or get_current_weather call are in range.
ArgsInRange(params) ==
  /\ params.arguments.t = "object"
  /\ Within(Get(params.arguments, "latitude"), -90, 90)
  /\ Within(Get(params.arguments, "longitude"), -180, 180)
  /\ params.name = "get_forecast" =>
       \/ Get(params.arguments, "forecast_days").t = "undefined"
       \/ Within(Get(params.arguments, "forecast_days"), 1, 16)

WeatherTools == {"get_forecast", "get_current_weather"}

\* The text of a reply that is a result.
ReplyText(call) == call.reply.content[1].text

\* The call in slot c has read a JSON body that is an object.
ReadObject(call) ==
  /\ call.pc = "done"
  /\ call.response.stage = "body"
  /\ call.response.body.json
  /\ call.response.body.data.t = "object"

\* C1: a get_forecast or get_current_weather call issues an upstream request
\* only if latitude is in [-90, 90], longitude in [-180, 180] and, for
\* get_forecast, forecast_days in [1, 16]; out of range, the call fails with
\* "Invalid arguments" and no request; in range (the bounds included) the
\* request carries the values as given.
C1_RangeGate ==
  \A c \in Slots :
    LET call == calls[c]
    IN (call.pc # "idle" /\ call.request.name \in WeatherTools) =>
         IF ArgsInRange(call.request)
           THEN /\ Len(call.fetches) = 1
                /\ QueryParam(call.fetches[1], "latitude")
                     = NumberToString(Get(call.request.arguments, "latitude"))
                /\ QueryParam(call.fetches[1], "longitude")
                     = NumberToString(Get(call.request.arguments, "longitude"))
           ELSE /\ call.fetches = <<>>
                /\ call.pc = "done"
                /\ call.reply.kind = "error"
                /\ StartsWith(call.reply.error.message, "Invalid arguments: ")

\* C1 witness: latitude 90.5 is refused without a request, not clamped to 90.
C1_Witness ==
  \E c \in Slots :
    /\ calls[c].pc = "done"
    /\ calls[c].request.name \in WeatherTools
    /\ calls[c].request.arguments.t = "object"
    /\ Get(calls[c].request.arguments, "latitude") = NumHalf(90)
    /\ calls[c].reply.kind = "error"
    /\ calls[c].fetches = <<>>

\* C2: every request get_forecast issues carries a forecast_days that is an
\* integer in [1, 16]: the value given, or 7 when none is given.
C2_ForecastDaysInteger ==
  \A c \in Slots :
    LET call == calls[c]
        given == Get(call.request.arguments, "forecast_days")
    IN (call.request.name = "get_forecast" /\ call.fetches # <<>>) =>
         /\ QueryParam(call.fetches[1], "forecast_days")
              \in {NatToString(n) : n \in 1..16}
         /\ QueryParam(call.fetches[1], "forecast_days")
              = IF given.t = "undefined" THEN "7" ELSE NumberToString(given)

\* C3: no call issues more than one upstream request, and a call whose
\* response has a status that is not ok has failed with an error carrying
\* the status text after exactly one request.
C3_SingleAttempt ==
  \A c \in Slots :
    LET call == calls[c]
    IN /\ Len(call.fetches) <= 1
       /\ (call.response.stage = "status" /\ ~call.response.ok) =>
            /\ call.pc = "done"
            /\ Len(call.fetches) = 1
            /\ call.reply.kind = "error"
            /\ EndsWith(call.reply.error.message,
                        " API error: " \o call.response.statusText)

\* C3 witness: a call has failed on a status that is not ok.
C3_Witness ==
  \E c \in Slots :
    /\ calls[c].pc = "done"
    /\ calls[c].response.stage = "status"
    /\ ~calls[c].response.ok
    /\ calls[c].response.statusText = "Internal Server Error"

\* C4: a geocode call whose location is the empty string fails with an
\* error and issues no upstream request.
C4_EmptyLocationRejected ==
  \A c \in Slots :
    LET call == calls[c]
    IN (call.pc # "idle" /\ call.request.name = "geocode"
        /\ Get(call.request.arguments, "location") = Str("")) =>
         /\ call.fetches = <<>>
         /\ call.pc = "done"
         /\ call.reply.kind = "error"

\* The body a geocode call has read is an object with no results key.
MissingResults(call) ==
  /\ ReadObject(call)
  /\ call.request.name = "geocode"
  /\ "results" \notin DOMAIN call.response.body.data.props

EmptyResults(call) ==
  /\ ReadObject(call)
  /\ call.request.name = "geocode"
  /\ "results" \in DOMAIN call.response.body.data.props
  /\ call.response.body.data.props["results"].t = "array"
  /\ Len(call.response.body.data.props["results"].items) = 0

\* C6 as claimed: on an empty results list the text is exactly
\* No results found for location: "L", the location in double quotes.
C6_NoResultsQuoted ==
  \A c \in Slots :
    EmptyResults(calls[c]) =>
      /\ calls[c].reply.kind = "result"
      /\ ReplyText(calls[c])
           = "No results found for location: \""
             \o Get(calls[c].request.arguments, "location").s \o "\""

\* C6 as amended: on an empty results list the reply is one text block that
\* is exactly No results found for location: L, the location as given,
\* without quotes, header or trailing line.
C6_NoResultsPlain ==
  \A c \in Slots :
    EmptyResults(calls[c]) =>
      /\ calls[c].reply.kind = "result"
      /\ Len(calls[c].reply.content) = 1
      /\ ReplyText(calls[c])
           = "No results found for location: "
             \o Get(calls[c].request.arguments, "location").s

\* C6 witness: the location Nowhere123 met an empty results list.
C6_Witness ==
  \E c \in Slots :
    /\ EmptyResults(calls[c])
    /\ Get(calls[c].request.arguments, "location") = Str("Nowhere123")

\* The object lacks a field the formatter of the tool reads.
MissingField(tool, data) ==
  LET inner == IF tool = "get_forecast" THEN "daily" ELSE "current"
      fields == IF tool = "get_forecast" THEN DailySeries \cup {"time"}
                ELSE CurrentFields
  IN \/ \E k \in {"latitude", "longitude", inner} : k \notin DOMAIN data.props
     \/ /\ inner \in DOMAIN data.props
        /\ \E k \in fields : k \notin DOMAIN data.props[inner].props

\* C7: a get_forecast or get_current_weather call whose body lacks a field
\* the formatter reads fails with an error.
C7_MissingFieldFails ==
  \A c \in Slots :
    (/\ ReadObject(calls[c])
     /\ calls[c].request.name \in WeatherTools
     /\ MissingField(calls[c].request.name, calls[c].response.body.data)) =>
      calls[c].reply.kind = "error"

\* The forecast body has its coordinates and a daily object whose series
\* are arrays at least as long as daily.time.
WellFormedForecast(data) ==
  /\ {"latitude", "longitude", "daily"} \subseteq DOMAIN data.props
  /\ data.props["daily"].t = "object"
  /\ DailySeries \cup {"time"} \subseteq DOMAIN data.props["daily"].props
  /\ \A k \in DailySeries \cup {"time"} :
       /\ data.props["daily"].props[k].t = "array"
       /\ Len(data.props["daily"].props[k].items)
            >= Len(data.props["daily"].props["time"].items)

\* The i-th entry (from 1) of the daily series k, as text.
DayEntry(data, k, i) == ToString(data.props["daily"].props[k].items[i])

\* The six lines of the block of day i (from 1): the five lines of the day
\* and the blank line after them.
DayBlock(data, i) ==
  "Date: " \o DayEntry(data, "time", i) \o "\n"
  \o "  Temperature: " \o DayEntry(data, "temperature_2m_max", i)
  \o "°C max, " \o DayEntry(data, "temperature_2m_min", i) \o "°C min" \o "\n"
  \o "  Precipitation: " \o DayEntry(data, "precipitation_sum", i) \o " mm"
  \o "\n"
  \o "  Wind Speed: " \o DayEntry(data, "wind_speed_10m_max", i)
  \o " km/h max" \o "\n"
  \o "  Weather Code: " \o DayEntry(data, "weather_code", i) \o "\n"
  \o "\n"

RECURSIVE DayBlocks(_, _)
\* The blocks of the days 1..n, in that order.
DayBlocks(data, n) ==
  IF n = 0 THEN "" ELSE DayBlocks(data, n - 1) \o DayBlock(data, n)

\* C8: for a forecast body whose daily.time has N entries, the text is the
\* header line, a blank line and exactly N day blocks, the i-th carrying the
\* i-th entry of every daily series, in upstream's order; for N = 0 it is the
\* header and the blank line alone.
C8_ForecastBlocks ==
  \A c \in Slots :
    (/\ ReadObject(calls[c])
     /\ calls[c].request.name = "get_forecast"
     /\ WellFormedForecast(calls[c].response.body.data)) =>
      LET data == calls[c].response.body.data
          header == "Weather Forecast for coordinates ("
                    \o ToString(data.props["latitude"]) \o ", "
                    \o ToString(data.props["longitude"]) \o ")" \o "\n"
      IN /\ calls[c].reply.kind = "result"
         /\ ReplyText(calls[c])
              = header \o "\n"
                \o DayBlocks(data, Len(data.props["daily"].props["time"].items))
         /\ Len(data.props["daily"].props["time"].items) = 0 =>
              ReplyText(calls[c]) = header \o "\n"

\* C8 witness: a forecast of MaxDays days has been formatted.
C8_Witness ==
  \E c \in Slots :
    /\ ReadObject(calls[c])
    /\ calls[c].request.name = "get_forecast"
    /\ WellFormedForecast(calls[c].response.body.data)
    /\ Len(calls[c].response.body.data.props["daily"].props["time"].items)
         = MaxDays

\* The reply of a call that runs alone on a fresh server, given its request
\* and the response the upstream gave it.
ToolCall(params, response) ==
  LET start == CallToolStart(params)
  IN IF start.throws THEN Settle(start)
     ELSE IF response.stage = "rejected" THEN Settle(FetchFailed)
     ELSE IF CallToolOk(start.value.frame, response).throws
       THEN Settle(CallToolOk(start.value.frame, response))
     ELSE Settle(CallToolData(start.value.frame, response.body))

\* The request or the response of a call that has ended makes it fail:
\* an unknown tool, invalid arguments, a fetch that failed, a status that is
\* not ok, a body that is not JSON.
FailureCause(call) ==
  \/ call.request.name \notin {"get_forecast", "get_current_weather", "geocode"}
  \/ call.fetches = <<>>
  \/ call.response.stage = "rejected"
  \/ ~call.response.ok
  \/ ~call.response.body.json

Suspended(call) == call.fetches # <<>>

\* C10 as claimed: every call that was suspended resumes exactly once.
C10_ResumesOnce ==
  \A c \in Slots :
    (calls[c].pc = "done" /\ Suspended(calls[c])) => calls[c].resumes = 1

\* C10 as amended: a call is suspended at most twice, at await fetch and,
\* after an ok status, at await response.json(), and resumes once from each;
\* it has a reply exactly when it has ended, and the reply is the one it gets
\* when it runs alone with the same arguments and the same response,
\* whatever the other calls do meanwhile.
C10_IndependentCalls ==
  \A c \in Slots :
    LET call == calls[c]
    IN /\ call.resumes = (CASE call.response.stage = "none" -> 0
                            [] call.response.stage = "rejected" -> 1
                            [] call.response.stage = "status" -> 1
                            [] call.response.stage = "body" -> 2)
       /\ (call.reply # NoReply) <=> (call.pc = "done")
       /\ call.pc = "done" => call.reply = ToolCall(call.request, call.response)
       /\ call.pc = "json" => call.response.ok

\* C10 witness: a call has ended after its second resumption while another
\* call with another request is suspended.
C10_Witness ==
  \E c, d \in Slots :
    /\ c # d
    /\ calls[c].pc = "done" /\ calls[c].resumes = 2
    /\ calls[d].pc \in {"fetch", "json"}
    /\ calls[d].request # calls[c].request

====
